---- MODULE Spec2Model ----
(***************************************************************************)
(* A model of podstats' ingestion pipeline and persisted-dataset store:    *)
(* src/src/utils.ts (parser, localStorage helpers), src/src/App.tsx (the   *)
(* active dataset, import, reset) and src/src/components/DataControls.tsx  *)
(* (file selection and the Import / Reset buttons).                        *)
(*                                                                         *)
(* A string of the program is a sequence of one-character strings, so      *)
(* that trimming, splitting and tokenizing are computed as the code        *)
(* computes them.  An optional value (null / undefined / absent key) is a  *)
(* sequence of length 0 or 1: None or Some(x).                             *)
(***************************************************************************)
EXTENDS Integers, Sequences, FiniteSets, TLC

None == << >>
Some(x) == << x >>

(***************************************************************************)
(* Strings.                                                                *)
(***************************************************************************)
\* The white space String.prototype.trim removes, as far as the modelled
\* alphabet has it.
WhiteSpace == { " ", "\t", "\n", "\r" }

DigitChars == << "0", "1", "2", "3", "4", "5", "6", "7", "8", "9" >>

IsDigit(c) == \E i \in 1..10 : DigitChars[i] = c

DigitVal(c) == (CHOOSE i \in 1..10 : DigitChars[i] = c) - 1

\* String.prototype.trimStart / trim: the string from its first to its
\* last character that is not white space
NonSpace(s) == { i \in 1..Len(s) : s[i] \notin WhiteSpace }

Least(S) == CHOOSE i \in S : \A j \in S : i <= j

Greatest(S) == CHOOSE i \in S : \A j \in S : j <= i

Between(s, idx, toEnd) ==
  IF idx = {} THEN << >>
  ELSE SubSeq(s, Least(idx), IF toEnd THEN Len(s) ELSE Greatest(idx))

TrimStart(s) == Between(s, NonSpace(s), TRUE)

Trim(s) == Between(s, NonSpace(s), FALSE)

\* s.replace(/c/g, ''): every occurrence of the character c removed
RemoveChar(s, c) == SelectSeq(s, LAMBDA x : x # c)

\* s.split('\n'): the pieces between the line feeds, one more than there
\* are line feeds; the empty string splits into one empty piece
NthOf(nl, k) == CHOOSE i \in nl : Cardinality({ j \in nl : j < i }) = k - 1

Pieces(s, nl, n) ==
  [k \in 1..(n + 1) |->
     SubSeq(s, IF k = 1 THEN 1 ELSE NthOf(nl, k - 1) + 1,
               IF k = n + 1 THEN Len(s) ELSE NthOf(nl, k) - 1)]

LineFeeds(s) == { i \in 1..Len(s) : s[i] = "\n" }

\* A split that gives no piece at all for the empty string
SplitLinesNoPieceForEmpty(s) ==
  IF s = << >> THEN << >> ELSE Pieces(s, LineFeeds(s), Cardinality(LineFeeds(s)))

SplitLines(s) == Pieces(s, LineFeeds(s), Cardinality(LineFeeds(s)))

(***************************************************************************)
(* utils.ts: parseNumber, parseDate, parseCSVLine                          *)
(***************************************************************************)
\* The value of the longest prefix of decimal digits of s, NaN when there
\* is none (NaN is modelled as None).
RECURSIVE DigitsPrefix(_, _, _)
DigitsPrefix(s, acc, seen) ==
  IF s # << >> /\ IsDigit(Head(s))
    THEN DigitsPrefix(Tail(s), acc * 10 + DigitVal(Head(s)), TRUE)
    ELSE IF seen THEN Some(acc) ELSE None

Negated(n, neg) == IF n = None THEN None ELSE Some(IF neg THEN 0 - n[1] ELSE n[1])

SignedDigits(t) ==
  IF t # << >> /\ Head(t) \in { "-", "+" }
    THEN Negated(DigitsPrefix(Tail(t), 0, FALSE), Head(t) = "-")
    ELSE DigitsPrefix(t, 0, FALSE)

\* parseInt(s, 10): leading white space skipped, an optional sign, then the
\* longest prefix of digits; NaN (None) when no digit follows.
ParseInt10(s) == SignedDigits(TrimStart(s))

\* The character U+2013 (one character of the program's strings)
EnDash == "U+2013"

\* n || 0: NaN and 0 are falsy
OrZero(n) == IF n = None THEN 0 ELSE n[1]

\* A parseNumber that leaves the commas in
parseNumberKeepingCommas(value) ==
  IF value = << >> \/ value = << EnDash >> \/ value = << "-" >> THEN 0
  ELSE OrZero(ParseInt10(value))

\* parseNumber: '' , an en-dash and a hyphen are 0; else parseInt of the
\* value without commas, || 0
parseNumber(value) ==
  IF value = << >> \/ value = << EnDash >> \/ value = << "-" >> THEN 0
  ELSE OrZero(ParseInt10(RemoveChar(value, ",")))

DaysInMonth(y, m) ==
  IF m = 2
    THEN (IF (y % 4 = 0 /\ y % 100 # 0) \/ y % 400 = 0 THEN 29 ELSE 28)
    ELSE IF m \in { 4, 6, 9, 11 } THEN 30 ELSE 31

IsIsoDate(s) ==
  /\ Len(s) = 10
  /\ s[5] = "-"
  /\ s[8] = "-"
  /\ \A i \in { 1, 2, 3, 4, 6, 7, 9, 10 } : IsDigit(s[i])

InvalidDate == [valid |-> FALSE, time |-> 0]

DateOf(y, m, d) ==
  IF m \in 1..12 /\ d \in 1..DaysInMonth(y, m)
    THEN [valid |-> TRUE, time |-> y * 10000 + m * 100 + d]
    ELSE InvalidDate

\* new Date(dateStr).  The date-only ISO form YYYY-MM-DD of an existing
\* calendar day is a valid Date in every engine; every other string of the
\* modelled inputs has no digit-bearing date form and is an Invalid Date
\* (getTime() is NaN).  The time value is kept as the order-preserving key
\* YYYYMMDD: the code only compares and subtracts time values.
parseDate(dateStr) ==
  IF IsIsoDate(dateStr)
    THEN DateOf(DigitVal(dateStr[1]) * 1000 + DigitVal(dateStr[2]) * 100
                  + DigitVal(dateStr[3]) * 10 + DigitVal(dateStr[4]),
                DigitVal(dateStr[6]) * 10 + DigitVal(dateStr[7]),
                DigitVal(dateStr[9]) * 10 + DigitVal(dateStr[10]))
    ELSE InvalidDate

\* A loop that keeps the quote characters in the field
RECURSIVE CSVLoopKeepingQuotes(_, _, _, _)
CSVLoopKeepingQuotes(line, result, current, inQuotes) ==
  IF line = << >> THEN Append(result, Trim(current))
  ELSE IF Head(line) = "\""
    THEN CSVLoopKeepingQuotes(Tail(line), result, Append(current, Head(line)), ~inQuotes)
  ELSE IF Head(line) = "," /\ ~inQuotes
    THEN CSVLoopKeepingQuotes(Tail(line), Append(result, Trim(current)), << >>, inQuotes)
  ELSE CSVLoopKeepingQuotes(Tail(line), result, Append(current, Head(line)), inQuotes)

\* parseCSVLine: the loop over the characters of the line
RECURSIVE CSVLoop(_, _, _, _)
CSVLoop(line, result, current, inQuotes) ==
  IF line = << >> THEN Append(result, Trim(current))
  ELSE IF Head(line) = "\""
    THEN CSVLoop(Tail(line), result, current, ~inQuotes)
  ELSE IF Head(line) = "," /\ ~inQuotes
    THEN CSVLoop(Tail(line), Append(result, Trim(current)), << >>, inQuotes)
  ELSE CSVLoop(Tail(line), result, Append(current, Head(line)), inQuotes)

parseCSVLine(line) == CSVLoop(line, << >>, << >>, FALSE)

(***************************************************************************)
(* utils.ts: parseEpisodesFromCsv                                          *)
(***************************************************************************)
HeaderDayN ==
  << "S", "l", "u", "g", ",", "T", "i", "t", "l", "e", ",", "P", "u", "b", "l", "i", "s",
     "h", "e", "d", ",", "D", "a", "y", " ", "1", ",", "D", "a", "y", " ", "7", ",", "D",
     "a", "y", " ", "1", "4", ",", "D", "a", "y", " ", "3", "0", ",", "D", "a", "y", " ",
     "9", "0", ",", "S", "p", "o", "t", "i", "f", "y", ",", "A", "l", "l", " ", "T", "i",
     "m", "e" >>

HeaderNDays ==
  << "S", "l", "u", "g", ",", "T", "i", "t", "l", "e", ",", "P", "u", "b", "l", "i", "s",
     "h", "e", "d", ",", "1", " ", "D", "a", "y", ",", "7", " ", "D", "a", "y", "s", ",",
     "1", "4", " ", "D", "a", "y", "s", ",", "3", "0", " ", "D", "a", "y", "s", ",", "9",
     "0", " ", "D", "a", "y", "s", ",", "S", "p", "o", "t", "i", "f", "y", ",", "A", "l",
     "l", " ", "T", "i", "m", "e" >>

EXPECTED_HEADERS == << HeaderDayN, HeaderNDays >>

\* A warning string, by its kind; the aggregate warning carries the count
\* it prints.
EmptyWarning == [kind |-> "CSV file is empty", count |-> 0]
HeaderWarning == [kind |-> "Header format not recognized", count |-> 0]
SkippedWarning(n) == [kind |-> "Skipped row(s)", count |-> n]

\* The header test of parseEpisodesFromCsv: quotes removed, trimmed, and
\* equal to one of the expected headers
Normalized(header) == Trim(RemoveChar(header, "\""))

headerMatches(headerLine) ==
  Normalized(Trim(headerLine)) \in
    { Normalized(EXPECTED_HEADERS[i]) : i \in 1..Len(EXPECTED_HEADERS) }

\* One data line: None when the line is empty (continue), else
\* [ok, episode]: ok is FALSE when the row is skipped.
NoEpisode ==
  [slug |-> << >>, title |-> << >>, published |-> 0, day1 |-> 0, day7 |-> 0,
   day14 |-> 0, day30 |-> 0, day90 |-> 0, spotify |-> 0, allTime |-> 0]

Skipped == Some([ok |-> FALSE, episode |-> NoEpisode])

episodeOf(fields, parsedDate) ==
  IF ~parsedDate.valid THEN Skipped
  ELSE Some([ok |-> TRUE,
             episode |->
               [slug |-> Trim(fields[1]),
                title |-> Trim(fields[2]),
                published |-> parsedDate.time,
                day1 |-> parseNumber(fields[4]),
                day7 |-> parseNumber(fields[5]),
                day14 |-> parseNumber(fields[6]),
                day30 |-> parseNumber(fields[7]),
                day90 |-> parseNumber(fields[8]),
                spotify |-> parseNumber(fields[9]),
                allTime |-> parseNumber(fields[10])]])

\* A row check that accepts rows of exactly ten fields only
rowOfExactlyTen(fields) ==
  IF Len(fields) # 10 THEN Skipped
  ELSE IF fields[1] = << >> \/ fields[2] = << >> \/ fields[3] = << >> THEN Skipped
  ELSE episodeOf(fields, parseDate(fields[3]))

rowOf(fields) ==
  IF Len(fields) < 10 THEN Skipped
  ELSE IF fields[1] = << >> \/ fields[2] = << >> \/ fields[3] = << >> THEN Skipped
  ELSE episodeOf(fields, parseDate(fields[3]))

\* A row builder without the skip of empty lines
trimmedRowOfEveryLine(line) == rowOf(parseCSVLine(line))

trimmedRow(line) == IF line = << >> THEN None ELSE rowOf(parseCSVLine(line))

buildRow(rawLine) == trimmedRow(Trim(rawLine))

\* Array.prototype.sort with (a, b) => b.published - a.published: a stable
\* sort, descending.  Each element goes after those not older than itself.
\* An insertion that puts an element before those of the same date
RECURSIVE InsertDescBeforeEqual(_, _)
InsertDescBeforeEqual(sorted, e) ==
  IF sorted # << >> /\ Head(sorted).published > e.published
    THEN << Head(sorted) >> \o InsertDescBeforeEqual(Tail(sorted), e)
    ELSE << e >> \o sorted

RECURSIVE InsertDesc(_, _)
InsertDesc(sorted, e) ==
  IF sorted # << >> /\ Head(sorted).published >= e.published
    THEN << Head(sorted) >> \o InsertDesc(Tail(sorted), e)
    ELSE << e >> \o sorted

RECURSIVE SortDesc(_, _)
SortDesc(es, acc) ==
  IF es = << >> THEN acc ELSE SortDesc(Tail(es), InsertDesc(acc, Head(es)))

\* A loop step in which a skipped row discards the episodes built so far
RowStepDiscarding(acc, r) ==
  IF r = None THEN acc
  ELSE IF r[1].ok
    THEN [acc EXCEPT !.episodes = Append(@, r[1].episode)]
    ELSE [episodes |-> << >>, skippedCount |-> acc.skippedCount + 1]

\* The loop over lines[1..] of parseEpisodesFromCsv
RowStep(acc, r) ==
  IF r = None THEN acc
  ELSE IF r[1].ok
    THEN [acc EXCEPT !.episodes = Append(@, r[1].episode)]
    ELSE [acc EXCEPT !.skippedCount = @ + 1]

RECURSIVE RowLoop(_, _)
RowLoop(lines, acc) ==
  IF lines = << >> THEN acc
  ELSE RowLoop(Tail(lines), RowStep(acc, buildRow(Head(lines))))

\* A result with one warning for each skipped row
parseResultWarningPerRow(headerOk, rows) ==
  [episodes |-> SortDesc(rows.episodes, << >>),
   skippedCount |-> rows.skippedCount,
   warnings |->
     (IF headerOk THEN << >> ELSE << HeaderWarning >>)
       \o [i \in 1..rows.skippedCount |-> SkippedWarning(1)]]

parseResult(headerOk, rows) ==
  [episodes |-> SortDesc(rows.episodes, << >>),
   skippedCount |-> rows.skippedCount,
   warnings |->
     (IF headerOk THEN << >> ELSE << HeaderWarning >>)
       \o (IF rows.skippedCount > 0
             THEN << SkippedWarning(rows.skippedCount) >>
             ELSE << >>)]

\* A parse that returns no rows when the header is not recognized
parseLinesHeaderFatal(lines) ==
  IF Len(lines) = 0
    THEN [episodes |-> << >>, skippedCount |-> 0, warnings |-> << EmptyWarning >>]
  ELSE IF ~headerMatches(lines[1])
    THEN [episodes |-> << >>, skippedCount |-> 0, warnings |-> << HeaderWarning >>]
  ELSE parseResult(TRUE, RowLoop(Tail(lines), [episodes |-> << >>, skippedCount |-> 0]))

parseLines(lines) ==
  IF Len(lines) = 0
    THEN [episodes |-> << >>, skippedCount |-> 0, warnings |-> << EmptyWarning >>]
    ELSE parseResult(headerMatches(lines[1]),
                     RowLoop(Tail(lines), [episodes |-> << >>, skippedCount |-> 0]))

parseEpisodesFromCsv(csv) == parseLines(SplitLines(Trim(csv)))

(***************************************************************************)
(* Bounds of the model.                                                    *)
(***************************************************************************)
\* Date.now() takes the values 1..MaxClock.
MaxClock == 2

\* At most MaxPending calls of handleFileImport are suspended at a time.
MaxPending == 2

(***************************************************************************)
(* The texts and files of the model.                                       *)
(***************************************************************************)
RowA ==
  << "7", ",", "\"", "A", ",", " ", "B", "\"", ",", "2", "0", "2", "5", "-", "0", "8", "-",
     "2", "5", ",", "\"", "1", ",", "7", "8", "1", "\"", ",", "5", ",", "4", ",", "3", ",",
     "2", ",", "1", ",", "2", "0" >>

RowB ==
  << "6", ",", "C", "#", ",", "2", "0", "2", "5", "-", "0", "8", "-", "1", "8", ",", "9",
     ",", "8", ",", "7", ",", "6", ",", "5", ",", "-", ",", "0" >>

RowC ==
  << "3", ",", "W", "e", "b", ",", "2", "0", "2", "5", "-", "0", "9", "-", "0", "1", ",",
     "2", ",", "3", ",", "4", ",", "5", ",", "6", ",", "7", ",", "8" >>

RowShort ==
  << "5", ",", "D", ",", "2", "0", "2", "5", "-", "0", "1", "-", "0", "1", ",", "1", ",",
     "2", ",", "3" >>

RowBadDate ==
  << "4", ",", "E", ",", "x", ",", "1", ",", "2", ",", "3", ",", "4", ",", "5", ",", "6",
     ",", "7" >>

LF == << "\n" >>

\* rawData: the bundled CSV (mergeconflict-metrics-20250930-2231.csv), cut
\* to its header and two rows
rawData == HeaderDayN \o LF \o RowA \o LF \o RowB \o LF

GoodText == HeaderNDays \o LF \o RowC \o LF \o RowB
MixedText == HeaderDayN \o LF \o RowShort \o LF \o RowA \o LF \o RowBadDate
EmptyText == << >>
BlankText == << " ", "\n" >>

MAX_FILE_SIZE == 5 * 1024 * 1024

\* A File: its name, whether the lower-cased name ends with ".csv", its
\* MIME type, its size in bytes and the text file.text() resolves to.
File(name, csvName, type, text, size) ==
  [name |-> name, csvName |-> csvName, type |-> type, text |-> text, size |-> size]

Files ==
  { File("mixed.csv", TRUE, "", MixedText, Len(MixedText)),
    File("empty.csv", TRUE, "text/csv", EmptyText, 0),
    File("blank.txt", FALSE, "text/plain", BlankText, Len(BlankText)),
    File("big.csv", TRUE, "text/csv", GoodText, MAX_FILE_SIZE + 1),
    File("notes.pdf", FALSE, "application/pdf", BlankText, Len(BlankText)) }

Texts == { f.text : f \in Files }

Names == { f.name : f \in Files }

\* The parse results of the texts of the model, computed once
parsedTexts == [t \in Texts \cup { rawData } |-> parseEpisodesFromCsv(t)]

parse(csv) ==
  IF csv \in DOMAIN parsedTexts THEN parsedTexts[csv] ELSE parseEpisodesFromCsv(csv)

(***************************************************************************)
(* utils.ts: loadEpisodes and the localStorage helpers                     *)
(***************************************************************************)
DefaultLabel == "Default Dataset"

\* An EpisodesState of a parse result
stateOf(result, sourceLabel, lastImportTimestamp) ==
  [episodes |-> result.episodes,
   skippedCount |-> result.skippedCount,
   warnings |-> result.warnings,
   sourceLabel |-> sourceLabel,
   lastImportTimestamp |-> lastImportTimestamp]

\* loadEpisodes: the bundled dataset, without lastImportTimestamp
loadEpisodes == stateOf(parse(rawData), DefaultLabel, None)

\* The string JSON.stringify gives for {sourceLabel, timestamp}, and the
\* other strings the metadata key can hold: the JSON text null, a text that
\* is not JSON, and the empty string.
JSONstringify(metadata) ==
  [json |-> "object", sourceLabel |-> metadata.sourceLabel,
   timestamp |-> metadata.timestamp]

NullJson == [json |-> "null", sourceLabel |-> "", timestamp |-> 0]
InvalidJson == [json |-> "invalid", sourceLabel |-> "", timestamp |-> 0]
EmptyString == [json |-> "", sourceLabel |-> "", timestamp |-> 0]

\* JSON.parse: throws on a text that is not JSON; null (None) for the text
\* null; else the object
JSONparse(str) ==
  [threw |-> str.json \notin { "object", "null" },
   value |-> IF str.json = "object"
               THEN Some([sourceLabel |-> str.sourceLabel, timestamp |-> str.timestamp])
               ELSE None]

\* localStorage: the value of each of the two keys, None when the key is
\* absent
EmptyStorage == [csv |-> None, meta |-> None]

\* A setItem or removeItem call may throw; getItem is taken to succeed.
\* fail says which of the two writes or removals of a helper throws:
\* 0 none, 1 the first, 2 the second.
FailChoices == { 0, 1, 2 }

\* A save that swallows the throw of a setItem call
saveCsvToStorageSwallowing(store, csv, metadata, fail) ==
  IF fail = 1 THEN [storage |-> store, threw |-> FALSE]
  ELSE IF fail = 2
    THEN [storage |-> [store EXCEPT !.csv = Some(csv)], threw |-> FALSE]
  ELSE [storage |-> [csv |-> Some(csv), meta |-> Some(JSONstringify(metadata))],
        threw |-> FALSE]

\* saveCsvToStorage: the two setItem calls; a throw of either is rethrown
\* as the "Failed to save data" error
saveCsvToStorage(store, csv, metadata, fail) ==
  IF fail = 1 THEN [storage |-> store, threw |-> TRUE]
  ELSE IF fail = 2
    THEN [storage |-> [store EXCEPT !.csv = Some(csv)], threw |-> TRUE]
  ELSE [storage |-> [csv |-> Some(csv), meta |-> Some(JSONstringify(metadata))],
        threw |-> FALSE]

\* A clear that removes the raw-text key only
clearCsvFromStorageCsvOnly(store, fail) ==
  IF fail = 0 THEN [store EXCEPT !.csv = None] ELSE store

\* A clear that removes the metadata key only
clearCsvFromStorageMetaOnly(store, fail) ==
  IF fail = 0 THEN [store EXCEPT !.meta = None] ELSE store

\* clearCsvFromStorage: the two removeItem calls; a throw is swallowed
clearCsvFromStorage(store, fail) ==
  IF fail = 1 THEN store
  ELSE IF fail = 2 THEN [store EXCEPT !.csv = None]
  ELSE EmptyStorage

\* !value of a string or null: null and '' are falsy
Falsy(opt, empty) == opt = None \/ opt[1] = empty

loadParsed(store, parsed, fail) ==
  IF parsed.threw
    THEN [storage |-> clearCsvFromStorage(store, fail), result |-> None]
    ELSE [storage |-> store,
          result |-> Some([csv |-> store.csv[1], metadata |-> parsed.value])]

\* loadCsvFromStorage: [storage, result]; result is None for null
loadCsvFromStorage(store, fail) ==
  IF Falsy(store.csv, EmptyText) \/ Falsy(store.meta, EmptyString)
    THEN [storage |-> store, result |-> None]
    ELSE loadParsed(store, JSONparse(store.meta[1]), fail)

\* A size check that refuses a file of exactly the limit
validateFileSizeBelowLimit(file) == file.size < MAX_FILE_SIZE

\* validateFileSize
validateFileSize(file) == file.size <= MAX_FILE_SIZE

(***************************************************************************)
(* The state.                                                              *)
(***************************************************************************)
VARIABLES
  storage,          \* localStorage: the raw-text key and the metadata key
  episodesState,    \* App: the active EpisodesState
  selectedEpisode,  \* App: the episode shown in detail, or None
  currentView,      \* App: the view shown
  selectedFile,     \* DataControls: the chosen file, or None
  error,            \* DataControls: the error message, or None
  isProcessing,     \* DataControls: an import of this instance is running
  pending,          \* the calls of handleFileImport suspended at file.text()
  now,              \* the last value Date.now() gave
  persisted,        \* history: what the last import or reset to finish was
  last,             \* history: the last step of the application
  call,             \* history: the last direct call of a storage helper
  input,            \* the argument of a direct call of a function of utils.ts
  output            \* what that call returned, None before the call

vars ==
  << storage, episodesState, selectedEpisode, currentView, selectedFile, error,
     isProcessing, pending, now, persisted, last, call, input, output >>

appVars ==
  << episodesState, selectedEpisode, currentView, selectedFile, error, isProcessing,
     pending, now, persisted, last, input, output >>

\* The views, one of each kind App renders differently: the dashboard (with
\* DataControls), "episodes" (like "topics": an episode list without
\* DataControls) and "charts" (like "blog": no episode list)
Views == { "dashboard", "episodes", "charts" }

\* The views that list episodes and pass onEpisodeClick
ClickViews == { "dashboard", "episodes" }

\* The error messages DataControls shows
NotCsvError == "Please select a CSV file"
SizeError == "File size exceeds 5 MB limit"
SaveError == "Failed to save data. Storage quota may be exceeded."
ReadError == "The file could not be read"

\* App renders DataControls on the dashboard view when no episode is open.
Mounted(view, sel) == view = "dashboard" /\ sel = None

\* The effect of App that drops a selected episode whose slug is not in the
\* active episode list
resetSelectedEffect(sel, episodes) ==
  IF sel # None /\ ~\E i \in 1..Len(episodes) : episodes[i].slug = sel[1].slug
    THEN None
    ELSE sel

\* The imports whose DataControls instance is unmounted can no longer set
\* its state.
Orphaned(ps) == [i \in 1..Len(ps) |-> [ps[i] EXCEPT !.live = FALSE]]

RemoveAt(seq, i) == SubSeq(seq, 1, i - 1) \o SubSeq(seq, i + 1, Len(seq))

Step(op, fail, live) == [op |-> op, fail |-> fail, live |-> live]

Persisted(kind, name, text, timestamp) ==
  [kind |-> kind, name |-> name, text |-> text, timestamp |-> timestamp]

NothingPersisted == Persisted("none", "", << >>, 0)

\* A direct call of a storage helper: the helper, which of its storage
\* calls threw, the storage before it, the arguments of the last save, what
\* it threw or returned, the call before it, and whether both keys hold
\* what one and the same save call wrote
Call(op, fail, before, csv, metadata, threw, result, paired) ==
  [op |-> op, fail |-> fail, before |-> before, csv |-> csv, metadata |-> metadata,
   threw |-> threw, result |-> result, prevOp |-> call.op, prevThrew |-> call.threw,
   paired |-> paired]

NoCall ==
  [op |-> "none", fail |-> 0, before |-> EmptyStorage, csv |-> << >>,
   metadata |-> [sourceLabel |-> "", timestamp |-> 0], threw |-> FALSE,
   result |-> None, prevOp |-> "none", prevThrew |-> FALSE, paired |-> FALSE]

(***************************************************************************)
(* App.tsx: the episodesState initializer.                                 *)
(***************************************************************************)
\* The state the initializer returns and the storage it leaves.  Reading
\* stored.metadata.sourceLabel of a null metadata throws inside the try,
\* whose catch clears the storage and falls back to the bundled dataset.
initialState(ld, fail) ==
  IF ld.result = None THEN [storage |-> ld.storage, state |-> loadEpisodes]
  ELSE IF ld.result[1].metadata = None
    THEN [storage |-> clearCsvFromStorage(ld.storage, fail), state |-> loadEpisodes]
  ELSE [storage |-> ld.storage,
        state |-> stateOf(parse(ld.result[1].csv),
                          ld.result[1].metadata[1].sourceLabel,
                          Some(ld.result[1].metadata[1].timestamp))]

initializer(store, fail) == initialState(loadCsvFromStorage(store, fail), fail)

\* Whether the initializer, or the loadCsvFromStorage it calls, ends in a
\* catch that calls clearCsvFromStorage
startClears(store) ==
  /\ ~Falsy(store.csv, EmptyText)
  /\ ~Falsy(store.meta, EmptyString)
  /\ store.meta[1].json # "object"

\* The application has started on an empty storage.
Init ==
  /\ storage = EmptyStorage
  /\ episodesState = loadEpisodes
  /\ selectedEpisode = None
  /\ currentView = "dashboard"
  /\ selectedFile = None
  /\ error = None
  /\ isProcessing = FALSE
  /\ pending = << >>
  /\ now = 1
  /\ persisted = NothingPersisted
  /\ last = Step("Init", 0, FALSE)
  /\ call = NoCall
  /\ input = None
  /\ output = None

\* The page is loaded again: every suspended import is gone with the old
\* page, and the initializer reads the storage.
Started(r) ==
  /\ storage' = r.storage
  /\ episodesState' = r.state
  /\ selectedEpisode' = None
  /\ currentView' = "dashboard"
  /\ selectedFile' = None
  /\ error' = None
  /\ isProcessing' = FALSE
  /\ pending' = << >>

AppStart ==
  \E fail \in FailChoices :
    /\ Started(initializer(storage, fail))
    /\ last' = Step("AppStart", IF startClears(storage) THEN fail ELSE 0, FALSE)
    /\ UNCHANGED << now, persisted, call, input, output >>

(***************************************************************************)
(* App.tsx: navigation and episode selection.                              *)
(***************************************************************************)
\* What happens to the DataControls instance when App renders with the
\* view and selection given: it keeps its state while it stays mounted; an
\* unmounted instance loses it, and a later one starts afresh.
Rerender(view, sel) ==
  IF Mounted(currentView, selectedEpisode) /\ Mounted(view, sel)
    THEN UNCHANGED << selectedFile, error, isProcessing, pending >>
    ELSE /\ selectedFile' = None
         /\ error' = None
         /\ isProcessing' = FALSE
         /\ pending' = Orphaned(pending)

setCurrentView(view) ==
  /\ view # currentView
  /\ currentView' = view
  /\ Rerender(view, selectedEpisode)
  /\ last' = Step("navigate", 0, FALSE)
  /\ UNCHANGED << storage, episodesState, selectedEpisode, now, persisted, call, input, output >>

handleEpisodeClick(i) ==
  /\ selectedEpisode = None
  /\ currentView \in ClickViews
  /\ selectedEpisode' =
       resetSelectedEffect(Some(episodesState.episodes[i]), episodesState.episodes)
  /\ Rerender(currentView, Some(episodesState.episodes[i]))
  /\ last' = Step("navigate", 0, FALSE)
  /\ UNCHANGED << storage, episodesState, currentView, now, persisted, call, input, output >>

handleBackToList ==
  /\ selectedEpisode # None
  /\ selectedEpisode' = None
  /\ Rerender(currentView, None)
  /\ last' = Step("navigate", 0, FALSE)
  /\ UNCHANGED << storage, episodesState, currentView, now, persisted, call, input, output >>

(***************************************************************************)
(* DataControls.tsx: handleFileChange, handleImport, handleReset.          *)
(***************************************************************************)
isCSV(file) ==
  file.csvName \/ file.type \in { "text/csv", "application/csv", "text/plain" }

\* What handleFileChange sets for the file of the change event (None when
\* the selection was emptied)
fileChange(choice) ==
  IF choice = None THEN [selectedFile |-> None, error |-> None]
  ELSE IF ~isCSV(choice[1]) THEN [selectedFile |-> None, error |-> Some(NotCsvError)]
  ELSE IF ~validateFileSize(choice[1])
    THEN [selectedFile |-> None, error |-> Some(SizeError)]
  ELSE [selectedFile |-> choice, error |-> None]

\* The file input is disabled while isProcessing.
handleFileChange(choice) ==
  /\ Mounted(currentView, selectedEpisode)
  /\ ~isProcessing
  /\ selectedFile' = fileChange(choice).selectedFile
  /\ error' = fileChange(choice).error
  /\ last' = Step("select", 0, FALSE)
  /\ UNCHANGED << storage, episodesState, selectedEpisode, currentView, isProcessing,
                  pending, now, persisted, call, input, output >>

\* The Import button is disabled when no file is selected or isProcessing.
\* handleImport calls onImport, which runs to its await of file.text().
handleImport ==
  /\ Mounted(currentView, selectedEpisode)
  /\ selectedFile # None
  /\ ~isProcessing
  /\ Len(pending) < MaxPending
  /\ isProcessing' = TRUE
  /\ error' = None
  /\ pending' = Append(pending, [file |-> selectedFile[1], live |-> TRUE])
  /\ last' = Step("select", 0, FALSE)
  /\ UNCHANGED << storage, episodesState, selectedEpisode, currentView, selectedFile,
                  now, persisted, call, input, output >>

\* An import that sets the active dataset before it saves
importDoneStateFirst(p, saved, time) ==
  /\ now' = time
  /\ storage' = saved.storage
  /\ episodesState' = stateOf(parse(p.file.text), p.file.name, Some(time))
  /\ selectedEpisode' = None
  /\ isProcessing' = IF p.live THEN FALSE ELSE isProcessing
  /\ selectedFile' = IF p.live /\ ~saved.threw THEN None ELSE selectedFile
  /\ error' = IF p.live /\ saved.threw THEN Some(SaveError) ELSE error
  /\ persisted' =
       IF saved.threw THEN NothingPersisted
       ELSE Persisted("upload", p.file.name, p.file.text, time)

\* An import that leaves the selected episode as it is
importDoneKeepingSelection(p, saved, time) ==
  /\ now' = time
  /\ storage' = saved.storage
  /\ episodesState' =
       IF saved.threw THEN episodesState
       ELSE stateOf(parse(p.file.text), p.file.name, Some(time))
  /\ selectedEpisode' = selectedEpisode
  /\ isProcessing' = IF p.live THEN FALSE ELSE isProcessing
  /\ selectedFile' = IF p.live /\ ~saved.threw THEN None ELSE selectedFile
  /\ error' = IF p.live /\ saved.threw THEN Some(SaveError) ELSE error
  /\ persisted' =
       IF saved.threw THEN NothingPersisted
       ELSE Persisted("upload", p.file.name, p.file.text, time)

\* An import that labels the dataset with the file selected at the time it
\* completes
importDoneLabelOfSelection(p, saved, time) ==
  /\ now' = time
  /\ storage' = saved.storage
  /\ episodesState' =
       IF saved.threw THEN episodesState
       ELSE stateOf(parse(p.file.text),
                    IF selectedFile # None THEN selectedFile[1].name ELSE p.file.name,
                    Some(time))
  /\ selectedEpisode' = IF saved.threw THEN selectedEpisode ELSE None
  /\ isProcessing' = IF p.live THEN FALSE ELSE isProcessing
  /\ selectedFile' = IF p.live /\ ~saved.threw THEN None ELSE selectedFile
  /\ error' = IF p.live /\ saved.threw THEN Some(SaveError) ELSE error
  /\ persisted' =
       IF saved.threw THEN NothingPersisted
       ELSE Persisted("upload", p.file.name, p.file.text, time)

\* handleFileImport after file.text() gave the text, with the outcome of
\* its saveCsvToStorage call, and then the rest of handleImport: the state
\* of the DataControls instance p.live says is still mounted.
importDone(p, saved, time) ==
  /\ now' = time
  /\ storage' = saved.storage
  /\ episodesState' =
       IF saved.threw THEN episodesState
       ELSE stateOf(parse(p.file.text), p.file.name, Some(time))
  /\ selectedEpisode' = IF saved.threw THEN selectedEpisode ELSE None
  /\ isProcessing' = IF p.live THEN FALSE ELSE isProcessing
  /\ selectedFile' = IF p.live /\ ~saved.threw THEN None ELSE selectedFile
  /\ error' = IF p.live /\ saved.threw THEN Some(SaveError) ELSE error
  /\ persisted' =
       IF saved.threw THEN NothingPersisted
       ELSE Persisted("upload", p.file.name, p.file.text, time)

\* file.text() of the i-th suspended import resolves.
fileTextResolved(i, fail, time) ==
  /\ importDone(pending[i],
                saveCsvToStorage(storage, pending[i].file.text,
                                 [sourceLabel |-> pending[i].file.name,
                                  timestamp |-> time], fail),
                time)
  /\ pending' = RemoveAt(pending, i)
  /\ last' = Step("fileTextResolved", fail, pending[i].live)
  /\ UNCHANGED << currentView, call, input, output >>

\* A rejection after which the controls stay in the processing state
fileTextRejectedStillProcessing(i) ==
  /\ pending' = RemoveAt(pending, i)
  /\ isProcessing' = isProcessing
  /\ error' = IF pending[i].live THEN Some(ReadError) ELSE error
  /\ persisted' = NothingPersisted
  /\ last' = Step("fileTextRejected", 0, pending[i].live)
  /\ UNCHANGED << storage, episodesState, selectedEpisode, currentView, selectedFile,
                  now, call, input, output >>

\* file.text() of the i-th suspended import rejects: handleFileImport
\* rethrows and handleImport's catch sets the error.
fileTextRejected(i) ==
  /\ pending' = RemoveAt(pending, i)
  /\ isProcessing' = IF pending[i].live THEN FALSE ELSE isProcessing
  /\ error' = IF pending[i].live THEN Some(ReadError) ELSE error
  /\ persisted' = NothingPersisted
  /\ last' = Step("fileTextRejected", 0, pending[i].live)
  /\ UNCHANGED << storage, episodesState, selectedEpisode, currentView, selectedFile,
                  now, call, input, output >>

\* The Reset button is rendered only for an uploaded dataset and disabled
\* while isProcessing.  DataControls' handleReset, then App's.
handleReset ==
  /\ Mounted(currentView, selectedEpisode)
  /\ episodesState.sourceLabel # DefaultLabel
  /\ ~isProcessing
  /\ \E fail \in FailChoices :
       /\ storage' = clearCsvFromStorage(storage, fail)
       /\ persisted' = Persisted(IF fail = 0 THEN "reset" ELSE "resetFailed", "", << >>, 0)
       /\ last' = Step("handleReset", fail, FALSE)
  /\ selectedFile' = None
  /\ error' = None
  /\ episodesState' = loadEpisodes
  /\ selectedEpisode' = None
  /\ UNCHANGED << currentView, isProcessing, pending, now, call, input, output >>

Next ==
  \/ AppStart
  \/ \E view \in Views : setCurrentView(view)
  \/ \E i \in 1..Len(episodesState.episodes) : handleEpisodeClick(i)
  \/ handleBackToList
  \/ \E choice \in { None } \cup { Some(f) : f \in Files } : handleFileChange(choice)
  \/ handleImport
  \/ \E i \in 1..Len(pending), fail \in FailChoices, time \in now..MaxClock :
       fileTextResolved(i, fail, time)
  \/ \E i \in 1..Len(pending) : fileTextRejected(i)
  \/ handleReset

\* The application: page loads, navigation, file selection, imports, resets
Spec == Init /\ [][Next]_vars

(***************************************************************************)
(* The storage helpers called directly, in any order.                      *)
(***************************************************************************)
\* Whether loadCsvFromStorage ends in its catch, which calls
\* clearCsvFromStorage
loadClears(store) ==
  /\ ~Falsy(store.csv, EmptyText)
  /\ ~Falsy(store.meta, EmptyString)
  /\ JSONparse(store.meta[1]).threw

callSave(csv, metadata, fail) ==
  /\ storage' = saveCsvToStorage(storage, csv, metadata, fail).storage
  /\ call' = Call("save", fail, storage, csv, metadata,
                  saveCsvToStorage(storage, csv, metadata, fail).threw, None,
                  IF fail = 0 THEN TRUE ELSE IF fail = 1 THEN call.paired ELSE FALSE)
  /\ UNCHANGED appVars

callLoad(fail) ==
  /\ storage' = loadCsvFromStorage(storage, fail).storage
  /\ call' = Call("load", IF loadClears(storage) THEN fail ELSE 0, storage, call.csv,
                  call.metadata, FALSE, loadCsvFromStorage(storage, fail).result,
                  IF loadClears(storage) /\ fail # 1 THEN FALSE ELSE call.paired)
  /\ UNCHANGED appVars

callClear(fail) ==
  /\ storage' = clearCsvFromStorage(storage, fail)
  /\ call' = Call("clear", fail, storage, call.csv, call.metadata, FALSE, None,
                  IF fail = 1 THEN call.paired ELSE FALSE)
  /\ UNCHANGED appVars

\* The arguments the helpers are called with
StoreTexts == { MixedText, BlankText, EmptyText }
Metadatas == [sourceLabel : { "mixed.csv", "empty.csv" }, timestamp : 1..MaxClock]

StoreNext ==
  \/ \E csv \in StoreTexts, metadata \in Metadatas, fail \in FailChoices :
       callSave(csv, metadata, fail)
  \/ \E fail \in FailChoices : callLoad(fail)
  \/ \E fail \in FailChoices : callClear(fail)

\* save, load and clear in any order, from an empty storage
SpecStore == Init /\ [][StoreNext]_vars

\* The strings the two keys can hold when the storage was written by
\* something else than saveCsvToStorage
AnyStorage ==
  [csv : { None } \cup { Some(t) : t \in StoreTexts },
   meta : { None, Some(EmptyString), Some(NullJson), Some(InvalidJson) }
            \cup { Some(JSONstringify(m)) : m \in Metadatas }]

InitAny ==
  /\ storage \in AnyStorage
  /\ episodesState = loadEpisodes
  /\ selectedEpisode = None
  /\ currentView = "dashboard"
  /\ selectedFile = None
  /\ error = None
  /\ isProcessing = FALSE
  /\ pending = << >>
  /\ now = 1
  /\ persisted = NothingPersisted
  /\ last = Step("Init", 0, FALSE)
  /\ call = NoCall
  /\ input = None
  /\ output = None

\* save, load and clear in any order, from any content of the two keys
SpecStoreAny == InitAny /\ [][StoreNext]_vars

(***************************************************************************)
(* The storage helpers: C1, C2, C3, C5, C7.                                *)
(***************************************************************************)
\* C1: a save is all-or-nothing.  After a call of saveCsvToStorage either
\* both keys hold what the call was given, or the call has signalled a
\* failure and the storage is what it was before the call.
C1_SaveAllOrNothing ==
  call.op = "save" =>
    IF call.threw
      THEN storage = call.before
      ELSE storage = [csv |-> Some(call.csv),
                      meta |-> Some(JSONstringify(call.metadata))]

\* C2: in every reachable state of the storage, where writes and removals
\* may fail, the raw-text key and the metadata key are both present or both
\* absent, and when present they were written by one and the same save call.
C2_KeysTogether ==
  /\ (storage.csv = None) <=> (storage.meta = None)
  /\ storage.csv # None => call.paired

\* C3: a load right after a successful save(t, m) returns exactly (t, m),
\* for every raw text t, the empty text included.
C3_SaveLoadRoundTrip ==
  (call.op = "load" /\ call.prevOp = "save" /\ ~call.prevThrew) =>
    call.result = Some([csv |-> call.csv, metadata |-> Some(call.metadata)])

\* C5: when both keys are present and the metadata value cannot be parsed,
\* loadCsvFromStorage removes both keys and returns null instead of
\* throwing.  Stated for the loads in which no storage call throws.
C5_CorruptMetadataSelfHeals ==
  (/\ call.op = "load"
   /\ call.fail = 0
   /\ call.before.csv # None
   /\ call.before.meta # None
   /\ JSONparse(call.before.meta[1]).threw) =>
    (call.result = None /\ ~call.threw /\ storage = EmptyStorage)

C6_UnusableStoredTextFallsBack ==
  (/\ last.op = "AppStart"
   /\ persisted.kind = "upload"
   /\ persisted.text # EmptyText
   /\ parse(persisted.text).episodes = << >>) =>
    (storage = EmptyStorage /\ episodesState = loadEpisodes)

\* C8: after a successful import of a file named n, an application start
\* before any reset or further import yields the parse of that file's
\* content, the source label n and the timestamp of the import.
C8_UploadSurvivesReload ==
  (last.op = "AppStart" /\ persisted.kind = "upload") =>
    episodesState = stateOf(parse(persisted.text), persisted.name,
                            Some(persisted.timestamp))

MaxRows == 2

RowSameDate ==
  << "8", ",", "F", ",", "2", "0", "2", "5", "-", "0", "8", "-", "2", "5", ",", "1",
     ",", "1", ",", "1", ",", "1", ",", "1", ",", "1", ",", "1" >>

RowNoTitle ==
  << "9", ",", "\"", "\"", ",", "2", "0", "2", "5", "-", "0", "9", "-", "0", "2", ",",
     "1", ",", "1", ",", "1", ",", "1", ",", "1", ",", "1", ",", "1" >>

RowExtra == RowC \o << ",", "x", ",", "y" >>

BlankLine == << " ", "\r" >>

QuotedHeader == << "\"" >> \o HeaderNDays \o << "\"" >>

BadHeader ==
  << "S", "l", "u", "g", ",", "N", "a", "m", "e" >>

\* The first lines: the two expected headers, one of them in quotes, a
\* header that is not expected, and a line of white space
HeaderLines == { HeaderDayN, HeaderNDays, QuotedHeader, BadHeader, BlankLine }

\* The further lines: rows that are accepted (two of them of the same
\* date, one with more than ten fields), rows that are skipped (too few
\* fields, a date that is none, an empty title), and lines that are empty
\* or white space
RowLines ==
  { RowA, RowB, RowC, RowSameDate, RowExtra, RowShort, RowBadDate, RowNoTitle, << >>,
    BlankLine }

RECURSIVE JoinLines(_)
JoinLines(ls) ==
  IF Len(ls) = 1 THEN ls[1] ELSE ls[1] \o LF \o JoinLines(Tail(ls))

RowsUpTo(n) == UNION { [1..k -> RowLines] : k \in 0..n }

CsvInputs == { JoinLines(<< h >> \o rows) : h \in HeaderLines, rows \in RowsUpTo(MaxRows) }

\* The application is not running while a function is called directly.
AppIdle ==
  /\ storage = EmptyStorage
  /\ episodesState = loadEpisodes
  /\ selectedEpisode = None
  /\ currentView = "dashboard"
  /\ selectedFile = None
  /\ error = None
  /\ isProcessing = FALSE
  /\ pending = << >>
  /\ now = 1
  /\ persisted = NothingPersisted
  /\ last = Step("Init", 0, FALSE)
  /\ call = NoCall

idleVars ==
  << storage, episodesState, selectedEpisode, currentView, selectedFile, error,
     isProcessing, pending, now, persisted, last, call >>

InitParse == AppIdle /\ input \in CsvInputs /\ output = None

callParseEpisodesFromCsv ==
  /\ output = None
  /\ output' = Some(parseEpisodesFromCsv(input))
  /\ UNCHANGED << input, idleVars >>

\* parseEpisodesFromCsv applied to each text of CsvInputs
SpecParse == InitParse /\ [][callParseEpisodesFromCsv]_vars

\* lines of parseEpisodesFromCsv: csv.trim().split('\n')
inputLines == SplitLines(Trim(input))

C12_CountConservationTrimmed ==
  output # None =>
    output[1].skippedCount + Len(output[1].episodes) =
      Cardinality({ k \in 2..Len(inputLines) : Trim(inputLines[k]) # << >> })

\* C12's case: a text with a line of white space, a skipped row and an
\* accepted row
C12_SkippedAndAccepted ==
  /\ output # None
  /\ output[1].skippedCount = 1
  /\ Len(output[1].episodes) = 1
  /\ Len(inputLines) = 3

\* C12 as stated: skippedCount plus the number of episodes equals the
\* number of lines of the input text, not empty after trimming, that
\* follow its first line.
C12_CountConservation ==
  output # None =>
    output[1].skippedCount + Len(output[1].episodes) =
      Cardinality({ k \in 2..Len(SplitLines(input)) :
                      Trim(SplitLines(input)[k]) # << >> })

\* C13: the episodes returned are in descending order of published, and
\* the episodes of one date are in the order of their rows in the text.
C13_SortedDescendingStable ==
  output # None =>
    /\ \A i, j \in 1..Len(output[1].episodes) :
         i < j => output[1].episodes[i].published >= output[1].episodes[j].published
    /\ \A d \in { output[1].episodes[i].published : i \in 1..Len(output[1].episodes) } :
         SelectSeq(output[1].episodes, LAMBDA e : e.published = d) =
           SelectSeq(RowLoop(Tail(inputLines), [episodes |-> << >>, skippedCount |-> 0]).episodes,
                     LAMBDA e : e.published = d)

\* C13's case: two different episodes of the same date
C13_TwoOfSameDate ==
  /\ output # None
  /\ Len(output[1].episodes) = 2
  /\ output[1].episodes[1].published = output[1].episodes[2].published
  /\ output[1].episodes[1].slug # output[1].episodes[2].slug

MaxLineLen == 4

\* The characters of a line: a letter, the comma, the double quote and
\* white space
LineChars == { "a", ",", "\"", " " }

LineInputs == UNION { [1..n -> LineChars] : n \in 0..MaxLineLen }

InitLine == AppIdle /\ input \in LineInputs /\ output = None

callParseCSVLine ==
  /\ output = None
  /\ output' = Some(parseCSVLine(input))
  /\ UNCHANGED << input, idleVars >>

\* parseCSVLine applied to each line of LineInputs
SpecLine == InitLine /\ [][callParseCSVLine]_vars

\* C15: parseCSVLine returns one field more than there are commas read
\* while the quote toggle is off (after an even number of quotes); the
\* commas read while it is on are the commas of the fields; no field has a
\* double quote, or white space at its start or end.
C15_TokenizerQuoteSemantics ==
  output # None =>
    LET quotesBefore(i) == Cardinality({ j \in 1..(i - 1) : input[j] = "\"" })
        commasOff == { i \in 1..Len(input) : input[i] = "," /\ quotesBefore(i) % 2 = 0 }
        commasOn == { i \in 1..Len(input) : input[i] = "," /\ quotesBefore(i) % 2 = 1 }
        fields == output[1]
    IN  /\ Len(fields) = 1 + Cardinality(commasOff)
        /\ Cardinality({ << k, i >> \in (1..Len(fields)) \X (1..Len(input)) :
                           i <= Len(fields[k]) /\ fields[k][i] = "," })
             = Cardinality(commasOn)
        /\ \A k \in 1..Len(fields) :
             /\ \A i \in 1..Len(fields[k]) : fields[k][i] # "\""
             /\ fields[k] = Trim(fields[k])

\* C15's case: a comma inside quotes, then a comma outside
C15_QuotedCommaThenComma ==
  /\ input = << "\"", ",", "\"", "," >>
  /\ output = Some(<< << "," >>, << >> >>)

(***************************************************************************)
(* parseNumber called directly on a field value.                           *)
(***************************************************************************)
\* A field value has at most MaxValueLen characters.
MaxValueLen == 3

\* The characters of a value: digits, the comma, the hyphen, the en-dash,
\* white space and a letter
ValueChars == { "0", "1", ",", "-", EnDash, " ", "x" }

ValueInputs == UNION { [1..n -> ValueChars] : n \in 0..MaxValueLen }

InitNumber == AppIdle /\ input \in ValueInputs /\ output = None

callParseNumber ==
  /\ output = None
  /\ output' = Some(parseNumber(input))
  /\ UNCHANGED << input, idleVars >>

\* parseNumber applied to each value of ValueInputs
SpecNumber == InitNumber /\ [][callParseNumber]_vars

C18_AggregateSkipWarning ==
  output # None =>
    LET aggregate == SelectSeq(output[1].warnings, LAMBDA w : w.kind = SkippedWarning(0).kind)
    IN  IF output[1].skippedCount > 0
          THEN aggregate = << SkippedWarning(output[1].skippedCount) >>
          ELSE aggregate = << >>

\* C18's case: two rows skipped, one warning
C18_TwoSkippedOneWarning ==
  /\ output # None
  /\ output[1].skippedCount = 2
  /\ output[1].warnings = << SkippedWarning(2) >>

(***************************************************************************)
(* utils.ts: extractTopics                                                 *)
(***************************************************************************)
UpperLetters ==
  << "A", "B", "C", "D", "E", "F", "G", "H", "I", "J", "K", "L", "M", "N", "O", "P", "Q",
     "R", "S", "T", "U", "V", "W", "X", "Y", "Z" >>

LowerLetters ==
  << "a", "b", "c", "d", "e", "f", "g", "h", "i", "j", "k", "l", "m", "n", "o", "p", "q",
     "r", "s", "t", "u", "v", "w", "x", "y", "z" >>

\* toLowerCase of a character
LowerOf ==
  [c \in { UpperLetters[i] : i \in 1..26 } |->
     LowerLetters[CHOOSE i \in 1..26 : UpperLetters[i] = c]]

LowerChar(c) == IF c \in DOMAIN LowerOf THEN LowerOf[c] ELSE c

\* s.toLowerCase()
toLowerCase(s) == [i \in 1..Len(s) |-> LowerChar(s[i])]

\* s.includes(sub)
includes(s, sub) ==
  \E p \in 0..(Len(s) - Len(sub)) : SubSeq(s, p + 1, p + Len(sub)) = sub

\* [a-zA-Z0-9], and the word characters of \b
AlnumChars ==
  { DigitChars[i] : i \in 1..10 }
    \cup { UpperLetters[i] : i \in 1..26 } \cup { LowerLetters[i] : i \in 1..26 }

IsAlnum(c) == c \in AlnumChars

IsWordChar(c) == IsAlnum(c) \/ c = "_"

\* The keywords of extractTopics, in the order they are tested
keywords ==
  << << "M", "a", "c", "h", "i", "n", "e", " ", "L", "e", "a", "r", "n", "i", "n", "g" >>,
     << "C", "h", "a", "t", "G", "P", "T" >>,
     << "G", "i", "t", "H", "u", "b", " ", "C", "o", "p", "i", "l", "o", "t" >>,
     << "V", "S", " ", "C", "o", "d", "e" >>,
     << "G", "i", "t", "H", "u", "b", " ", "A", "c", "t", "i", "o", "n", "s" >>,
     << "C", "I", "/", "C", "D" >>,
     << "G", "i", "t", "H", "u", "b", " ", "S", "p", "a", "r", "k" >>,
     << "v", "i", "s", "i", "o", "n", "O", "S" >>,
     << "w", "a", "t", "c", "h", "O", "S" >>,
     << "t", "v", "O", "S" >>,
     << "m", "a", "c", "O", "S" >>,
     << "i", "O", "S" >>,
     << "A", "n", "d", "r", "o", "i", "d" >>,
     << "P", "l", "a", "y", "S", "t", "a", "t", "i", "o", "n" >>,
     << "X", "b", "o", "x" >>,
     << ".", "N", "E", "T", " ", "M", "A", "U", "I" >>,
     << "M", "A", "U", "I" >>,
     << ".", "N", "E", "T" >>,
     << "B", "l", "a", "z", "o", "r" >>,
     << "R", "e", "a", "c", "t" >>,
     << "S", "w", "i", "f", "t" >>,
     << "K", "o", "t", "l", "i", "n" >>,
     << "C", "#" >>,
     << "G", "r", "a", "p", "h", "Q", "L" >>,
     << "D", "o", "c", "k", "e", "r" >>,
     << "K", "u", "b", "e", "r", "n", "e", "t", "e", "s" >>,
     << "A", "z", "u", "r", "e" >>,
     << "A", "W", "S" >>,
     << "O", "p", "e", "n", "A", "I" >>,
     << "G", "i", "t", "H", "u", "b" >>,
     << "X", "c", "o", "d", "e" >>,
     << "C", "o", "p", "i", "l", "o", "t" >>,
     << "A", "p", "p", "l", "e" >>,
     << "M", "i", "c", "r", "o", "s", "o", "f", "t" >>,
     << "G", "o", "o", "g", "l", "e" >>,
     << "M", "e", "t", "a" >>,
     << "N", "i", "n", "t", "e", "n", "d", "o" >>,
     << "A", "I" >>,
     << "M", "L" >>,
     << "V", "R" >>,
     << "A", "R" >>,
     << "X", "R" >>,
     << "A", "P", "I" >>,
     << "R", "E", "S", "T" >>,
     << "S", "Q", "L" >>,
     << "M", "o", "b", "i", "l", "e" >>,
     << "W", "e", "b" >>,
     << "D", "e", "s", "k", "t", "o", "p" >>,
     << "C", "l", "o", "u", "d" >>,
     << "S", "e", "c", "u", "r", "i", "t", "y" >>,
     << "D", "a", "t", "a", "b", "a", "s", "e" >>,
     << "D", "e", "v", "O", "p", "s" >> >>

\* keyword.includes('.') || keyword.includes('#')
hasSpecialChar(keyword) == \E i \in 1..Len(keyword) : keyword[i] \in { ".", "#" }

alnumAt(title, i) == i \in 1..Len(title) /\ IsAlnum(title[i])

wordAt(title, i) == i \in 1..Len(title) /\ IsWordChar(title[i])

\* \b between the characters i - 1 and i
boundary(title, i) == wordAt(title, i - 1) # wordAt(title, i)

\* A match of the pattern in the title: the keyword, compared without
\* regard to case (the flag i), between (?<![a-zA-Z0-9]) and
\* (?![a-zA-Z0-9]) when it has a dot or a hash, else between two \b
patternMatches(special, keywordLower, title, titleLower) ==
  \E p \in 1..(Len(title) - Len(keywordLower) + 1) :
    /\ SubSeq(titleLower, p, p + Len(keywordLower) - 1) = keywordLower
    /\ IF special
         THEN ~alnumAt(title, p - 1) /\ ~alnumAt(title, p + Len(keywordLower))
         ELSE boundary(title, p) /\ boundary(title, p + Len(keywordLower))

\* pattern.test(title)
patternTest(keyword, title) ==
  patternMatches(hasSpecialChar(keyword), toLowerCase(keyword), title, toLowerCase(title))

hasContainingMatch(matchedTopics, keyword) ==
  \E i \in 1..Len(matchedTopics) :
    /\ includes(toLowerCase(matchedTopics[i]), toLowerCase(keyword))
    /\ matchedTopics[i] # keyword

\* matchedTopics without the entries at indexesToRemove
withoutContained(matchedTopics, keyword) ==
  SelectSeq(matchedTopics,
            LAMBDA existing :
              ~(includes(toLowerCase(keyword), toLowerCase(existing))
                  /\ keyword # existing))

\* A step that pushes a keyword even when a match that contains it is there
pushKeywordAlways(matchedTopics, keyword) ==
  Append(withoutContained(matchedTopics, keyword), keyword)

\* A step that leaves the matches contained in the keyword in place
pushKeywordWithoutRemoval(matchedTopics, keyword) ==
  IF hasContainingMatch(matchedTopics, keyword)
    THEN matchedTopics
    ELSE Append(matchedTopics, keyword)

\* What extractTopics does with a keyword whose pattern matches the title
pushKeyword(matchedTopics, keyword) ==
  IF hasContainingMatch(matchedTopics, keyword)
    THEN matchedTopics
    ELSE Append(withoutContained(matchedTopics, keyword), keyword)

\* The loop over the keywords, in the order given
RECURSIVE matchLoop(_, _, _)
matchLoop(title, kws, matchedTopics) ==
  IF kws = << >> THEN matchedTopics
  ELSE matchLoop(title, Tail(kws),
                 IF patternTest(Head(kws), title)
                   THEN pushKeyword(matchedTopics, Head(kws))
                   ELSE matchedTopics)

\* A step that puts the episode at the front of the topic's list
addToTopicAtFront(topics, topic, episode) ==
  IF \E i \in 1..Len(topics) : topics[i].topic = topic
    THEN [i \in 1..Len(topics) |->
            IF topics[i].topic = topic
              THEN [topics[i] EXCEPT !.episodes = << episode >> \o @]
              ELSE topics[i]]
    ELSE Append(topics, [topic |-> topic, episodes |-> << episode >>])

\* topics (a Map, kept in insertion order) after topics.get(topic).push(episode)
addToTopic(topics, topic, episode) ==
  IF \E i \in 1..Len(topics) : topics[i].topic = topic
    THEN [i \in 1..Len(topics) |->
            IF topics[i].topic = topic
              THEN [topics[i] EXCEPT !.episodes = Append(@, episode)]
              ELSE topics[i]]
    ELSE Append(topics, [topic |-> topic, episodes |-> << episode >>])

RECURSIVE addToTopics(_, _, _)
addToTopics(topics, matchedTopics, episode) ==
  IF matchedTopics = << >> THEN topics
  ELSE addToTopics(addToTopic(topics, Head(matchedTopics), episode),
                   Tail(matchedTopics), episode)

RECURSIVE topicsLoop(_, _)
topicsLoop(episodes, topics) ==
  IF episodes = << >> THEN topics
  ELSE topicsLoop(Tail(episodes),
                  addToTopics(topics, matchLoop(Head(episodes).title, keywords, << >>),
                              Head(episodes)))

\* A classification that keeps one map for all its calls
extractTopicsSharedMap(episodes) ==
  topicsLoop(episodes, IF output = None THEN << >> ELSE output[1])

extractTopics(episodes) == topicsLoop(episodes, << >>)

(***************************************************************************)
(* extractTopics called directly on a list of episodes.                    *)
(***************************************************************************)
\* A title has at most MaxTitleWords words.
MaxTitleWords == 2

\* The words of a title: keywords in upper and lower case, parts of
\* keywords of several words, and a word that only has a keyword at its
\* start
TitleWords ==
  { << ".", "N", "E", "T" >>, << "m", "a", "u", "i" >>,
    << "G", "i", "t", "H", "u", "b" >>, << "C", "o", "p", "i", "l", "o", "t" >>,
    << "S", "p", "a", "r", "k" >>, << "O", "p", "e", "n", "A", "I" >>, << "A", "I" >>,
    << "A", "R" >>, << "W", "e", "b", "s" >> }

RECURSIVE JoinWords(_)
JoinWords(ws) ==
  IF ws = << >> THEN << >>
  ELSE IF Len(ws) = 1 THEN ws[1]
  ELSE ws[1] \o << " " >> \o JoinWords(Tail(ws))

Titles == { JoinWords(ws) : ws \in UNION { [1..n -> TitleWords] : n \in 0..MaxTitleWords } }

EpisodeTitled(slug, title) == [NoEpisode EXCEPT !.slug = slug, !.title = title]

\* The episode that follows the first one in the lists of two
SecondEpisode == EpisodeTitled(<< "2" >>, << "M", "A", "U", "I", " ", "A", "I" >>)

\* The lists of one episode, and of that episode followed by SecondEpisode
EpisodeLists ==
  { << EpisodeTitled(<< "1" >>, t) >> : t \in Titles }
    \cup { << EpisodeTitled(<< "1" >>, t), SecondEpisode >> : t \in Titles }

InitTopics == AppIdle /\ input \in EpisodeLists /\ output = None

callExtractTopics ==
  /\ output = None
  /\ output' = Some(extractTopics(input))
  /\ UNCHANGED << input, idleVars >>

\* extractTopics applied to each list of EpisodeLists
SpecTopics == InitTopics /\ [][callExtractTopics]_vars

\* The pairs of different keywords of which the second is, without regard
\* to case, a substring of the first
containedPairs ==
  { pair \in { keywords[i] : i \in 1..Len(keywords) } \X { keywords[i] : i \in 1..Len(keywords) } :
      /\ pair[1] # pair[2]
      /\ includes(toLowerCase(pair[1]), toLowerCase(pair[2])) }

\* C19: when a title matches a keyword A and a different keyword B whose
\* text is, without regard to case, a substring of A's, the episode is
\* listed under A and not under B.
C19_SubWordSuppression ==
  output # None =>
    \A n \in 1..Len(input), pair \in containedPairs :
      (patternTest(pair[1], input[n].title) /\ patternTest(pair[2], input[n].title)) =>
        /\ \E i \in 1..Len(output[1]) :
             /\ output[1][i].topic = pair[1]
             /\ \E j \in 1..Len(output[1][i].episodes) : output[1][i].episodes[j] = input[n]
        /\ \A i \in 1..Len(output[1]) :
             output[1][i].topic = pair[2] =>
               \A j \in 1..Len(output[1][i].episodes) : output[1][i].episodes[j] # input[n]

\* C19's case: the first title matches ".NET MAUI", "MAUI" and ".NET" and
\* is listed under ".NET MAUI" only, while the second episode is listed
\* under "MAUI"
C19_DotNetMauiOnly ==
  /\ output # None
  /\ Len(input) = 2
  /\ input[1].title = << ".", "N", "E", "T", " ", "m", "a", "u", "i" >>
  /\ output[1] =
       << [topic |-> << ".", "N", "E", "T", " ", "M", "A", "U", "I" >>,
           episodes |-> << input[1] >>],
          [topic |-> << "M", "A", "U", "I" >>, episodes |-> << input[2] >>],
          [topic |-> << "A", "I" >>, episodes |-> << input[2] >>] >>

callExtractTopicsAgain ==
  /\ Len(output) = 1
  /\ output' = Append(output, extractTopics(input))
  /\ UNCHANGED << input, idleVars >>

NextTopicsTwice == callExtractTopics \/ callExtractTopicsAgain

SpecTopicsTwice == InitTopics /\ [][NextTopicsTwice]_vars

C22_TopicListsInSuppliedOrder ==
  output # None =>
    LET survivors(title) ==
          LET matched == { k \in { keywords[i] : i \in 1..Len(keywords) } : patternTest(k, title) }
          IN  { k \in matched :
                  ~\E m \in matched :
                     m # k /\ includes(toLowerCase(m), toLowerCase(k)) }
        map == output[1]
    IN  /\ \A i, j \in 1..Len(map) : map[i].topic = map[j].topic => i = j
        /\ \A i \in 1..Len(map) :
             /\ map[i].episodes # << >>
             /\ map[i].episodes =
                  SelectSeq(input, LAMBDA e : map[i].topic \in survivors(e.title))
             /\ \A n \in 1..Len(input) :
                  Cardinality({ j \in 1..Len(map[i].episodes) :
                                  map[i].episodes[j] = input[n] }) <= 1
        /\ \A n \in 1..Len(input) :
             \A k \in survivors(input[n].title) :
               \E j \in 1..Len(map) : map[j].topic = k

\* C22's case: the topic "AI" lists both episodes, the first one first,
\* and "MAUI" lists the second one only
C22_TwoEpisodesOneTopic ==
  /\ output # None
  /\ Len(input) = 2
  /\ input[1].title = << "A", "I" >>
  /\ \E i \in 1..Len(output[1]) :
       /\ output[1][i].topic = << "A", "I" >>
       /\ output[1][i].episodes = << input[1], input[2] >>
  /\ \E i \in 1..Len(output[1]) :
       /\ output[1][i].topic = << "M", "A", "U", "I" >>
       /\ output[1][i].episodes = << input[2] >>

(***************************************************************************)
(* calculateRetention and getEpisodePerformance.  A number that results    *)
(* from a division is kept as the exact fraction num/den; a fraction with  *)
(* den = 0 is what a division by 0 gives (Infinity or NaN).                *)
(***************************************************************************)
\* a / b
Divide(a, b) == [num |-> a, den |-> b]

\* q * n
Times(q, n) == [q EXCEPT !.num = @ * n]

\* q is a finite number
IsFinite(q) == q.den # 0

\* the literal 0
Zero == [num |-> 0, den |-> 1]

\* A calculateRetention without the test of allTime
calculateRetentionUnguarded(episode) ==
  [day1 |-> Times(Divide(episode.day1, episode.allTime), 100),
   day7 |-> Times(Divide(episode.day7, episode.allTime), 100),
   day30 |-> Times(Divide(episode.day30, episode.allTime), 100)]

calculateRetention(episode) ==
  IF episode.allTime = 0
    THEN [day1 |-> Zero, day7 |-> Zero, day30 |-> Zero]
    ELSE [day1 |-> Times(Divide(episode.day1, episode.allTime), 100),
          day7 |-> Times(Divide(episode.day7, episode.allTime), 100),
          day30 |-> Times(Divide(episode.day30, episode.allTime), 100)]

\* The download counts of an episode are at most MaxDownloads.
MaxDownloads == 4

\* The episodes calculateRetention is applied to
RetentionInputs ==
  { [NoEpisode EXCEPT !.day1 = d1, !.day7 = d7, !.day30 = d30, !.allTime = a] :
      d1 \in 0..MaxDownloads, d7 \in 0..MaxDownloads,
      d30 \in 0..MaxDownloads, a \in 0..MaxDownloads }

InitRetention == AppIdle /\ input \in RetentionInputs /\ output = None

callCalculateRetention ==
  /\ output = None
  /\ output' = Some(calculateRetention(input))
  /\ UNCHANGED << input, idleVars >>

\* calculateRetention applied to each episode of RetentionInputs
SpecRetention == InitRetention /\ [][callCalculateRetention]_vars

\* C23 (amended): no field of the result comes from a division by 0; when
\* allTime is 0 the result is {0, 0, 0}; for every other episode each field
\* equals 100 * dayN / allTime, which is {0, 0, 0} exactly when day1, day7
\* and day30 are all 0.
C23_RetentionRule ==
  output # None =>
    LET r == output[1]
        is(q, dayN) == IsFinite(q) /\ q.num * input.allTime = 100 * dayN * q.den
    IN  /\ IsFinite(r.day1) /\ IsFinite(r.day7) /\ IsFinite(r.day30)
        /\ input.allTime = 0 => r = [day1 |-> Zero, day7 |-> Zero, day30 |-> Zero]
        /\ input.allTime # 0 =>
             /\ is(r.day1, input.day1) /\ is(r.day7, input.day7) /\ is(r.day30, input.day30)
             /\ (r.day1.num = 0 /\ r.day7.num = 0 /\ r.day30.num = 0)
                  <=> (input.day1 = 0 /\ input.day7 = 0 /\ input.day30 = 0)

\* C23's case: an episode with downloads all time and none in its first 30
\* days has the retention {0, 0, 0}
C23_ZeroRetentionWithDownloads ==
  /\ output # None
  /\ input.allTime = MaxDownloads
  /\ input.day1 = 0 /\ input.day7 = 0 /\ input.day30 = 0
  /\ output[1].day1.num = 0 /\ output[1].day7.num = 0 /\ output[1].day30.num = 0

\* C23 as stated: the result is {0, 0, 0} if and only if allTime is 0, and
\* every other result has the fields 100 * dayN / allTime.
C23_ZeroIffNoDownloads ==
  output # None =>
    LET r == output[1]
        is(q, dayN) == IsFinite(q) /\ q.num * input.allTime = 100 * dayN * q.den
    IN  /\ IsFinite(r.day1) /\ IsFinite(r.day7) /\ IsFinite(r.day30)
        /\ (r.day1.num = 0 /\ r.day7.num = 0 /\ r.day30.num = 0) <=> input.allTime = 0
        /\ input.allTime # 0 =>
             is(r.day1, input.day1) /\ is(r.day7, input.day7) /\ is(r.day30, input.day30)

\* p >= q for a number p and a literal q (q.den > 0): Infinity is >= every
\* literal, NaN and -Infinity are not
GreaterEq(p, q) ==
  IF p.den = 0 THEN p.num > 0
  ELSE IF p.den > 0 THEN p.num * q.den >= q.num * p.den
  ELSE p.num * q.den <= q.num * p.den

\* A getEpisodePerformance whose tiers are open on the lower end
getEpisodePerformanceStrict(episode, avgAllTime) ==
  LET ratio == Divide(episode.allTime, avgAllTime)
      above(q) == GreaterEq(ratio, q) /\ ratio.num * q.den # q.num * ratio.den
  IN  IF above([num |-> 15, den |-> 10]) THEN "excellent"
      ELSE IF above([num |-> 11, den |-> 10]) THEN "good"
      ELSE IF above([num |-> 9, den |-> 10]) THEN "average"
      ELSE "below-average"

getEpisodePerformance(episode, avgAllTime) ==
  LET ratio == Divide(episode.allTime, avgAllTime)
  IN  IF GreaterEq(ratio, [num |-> 15, den |-> 10]) THEN "excellent"
      ELSE IF GreaterEq(ratio, [num |-> 11, den |-> 10]) THEN "good"
      ELSE IF GreaterEq(ratio, [num |-> 9, den |-> 10]) THEN "average"
      ELSE "below-average"

\* allTime is at most MaxAllTime and avgAllTime at most MaxAverage.
MaxAllTime == 16

MaxAverage == 10

\* The arguments getEpisodePerformance is applied to; an average of 0 is
\* that of a list whose episodes all have allTime 0
PerformanceInputs ==
  { [episode |-> [NoEpisode EXCEPT !.allTime = a], avgAllTime |-> v] :
      a \in 0..MaxAllTime, v \in 0..MaxAverage }

InitPerformance == AppIdle /\ input \in PerformanceInputs /\ output = None

callGetEpisodePerformance ==
  /\ output = None
  /\ output' = Some(getEpisodePerformance(input.episode, input.avgAllTime))
  /\ UNCHANGED << input, idleVars >>

\* getEpisodePerformance applied to each pair of PerformanceInputs
SpecPerformance == InitPerformance /\ [][callGetEpisodePerformance]_vars

\* C24: for a positive average the tier is "excellent" when allTime / avg
\* >= 1.5, "good" when 1.1 <= allTime / avg < 1.5, "average" when
\* 0.9 <= allTime / avg < 1.1 and "below-average" when allTime / avg < 0.9
\* (the ratios are compared after multiplying by 10 * avg).
C24_TiersClosedBelow ==
  (output # None /\ input.avgAllTime > 0) =>
    LET a == input.episode.allTime
        v == input.avgAllTime
    IN  /\ 10 * a >= 15 * v => output[1] = "excellent"
        /\ (11 * v <= 10 * a /\ 10 * a < 15 * v) => output[1] = "good"
        /\ (9 * v <= 10 * a /\ 10 * a < 11 * v) => output[1] = "average"
        /\ 10 * a < 9 * v => output[1] = "below-average"

\* C24's case: the ratios 1.5, 1.1 and 0.9 are all possible for this
\* average, and the ratio of exactly 1.1 is "good"
C24_RatioExactlyOnePointOne ==
  /\ output # None
  /\ input.avgAllTime = 10
  /\ input.episode.allTime = 11
  /\ output[1] = "good"

(***************************************************************************)
(* The application with files at the size limit: one of exactly            *)
(* MAX_FILE_SIZE bytes and one of a byte more.                             *)
(***************************************************************************)
SizeFiles ==
  { File("limit.csv", TRUE, "text/csv", GoodText, MAX_FILE_SIZE),
    File("big.csv", TRUE, "text/csv", MixedText, MAX_FILE_SIZE + 1) }

NextSize ==
  \/ AppStart
  \/ \E view \in Views : setCurrentView(view)
  \/ \E i \in 1..Len(episodesState.episodes) : handleEpisodeClick(i)
  \/ handleBackToList
  \/ \E choice \in { None } \cup { Some(f) : f \in SizeFiles } : handleFileChange(choice)
  \/ handleImport
  \/ \E i \in 1..Len(pending), fail \in FailChoices, time \in now..MaxClock :
       fileTextResolved(i, fail, time)
  \/ \E i \in 1..Len(pending) : fileTextRejected(i)
  \/ handleReset

SpecSize == Init /\ [][NextSize]_vars

\* C25: choosing a file of more than MAX_FILE_SIZE bytes sets the size
\* error and no selected file, choosing one of at most MAX_FILE_SIZE bytes
\* selects it; and a file of more than MAX_FILE_SIZE bytes is never the
\* selected file, never the file of an import, and never the source of the
\* stored text or of the active dataset.
C25_SizeCheckBeforeImport ==
  /\ [](/\ selectedFile # None => selectedFile[1].size <= MAX_FILE_SIZE
        /\ \A i \in 1..Len(pending) : pending[i].file.size <= MAX_FILE_SIZE
        /\ \A f \in SizeFiles :
             f.size > MAX_FILE_SIZE =>
               /\ episodesState.sourceLabel # f.name
               /\ persisted.name # f.name
               /\ storage.csv # Some(f.text))
  /\ [][\A f \in SizeFiles :
          handleFileChange(Some(f)) =>
            IF f.size > MAX_FILE_SIZE
              THEN selectedFile' = None /\ error' = Some(SizeError)
              ELSE selectedFile' = Some(f) /\ error' = None]_vars

\* C25's case: the file of exactly MAX_FILE_SIZE bytes has been imported
\* and stored, and the file of a byte more has just been refused
C25_LimitImportedBigRefused ==
  /\ episodesState.sourceLabel = "limit.csv"
  /\ storage.csv = Some(GoodText)
  /\ error = Some(SizeError)
  /\ selectedFile = None

\* C26: at most one import is suspended at file.text() at a time, and while
\* one is suspended no step starts another import or a reset.
C26_OneOperationAtATime ==
  /\ [](Len(pending) <= 1)
  /\ [][pending # << >> =>
          (Len(pending') <= Len(pending) /\ last'.op # "handleReset")]_vars

C28_SelectedEpisodeValid ==
  /\ [](\/ selectedEpisode = None
        \/ \E i \in 1..Len(episodesState.episodes) :
             episodesState.episodes[i].slug = selectedEpisode[1].slug)
  /\ [][(\/ (last'.op = "fileTextResolved" /\ last'.fail = 0)
         \/ last'.op = "handleReset") => selectedEpisode' = None]_vars

\* C28's case: an import started on the dashboard has completed while the
\* episodes view was shown, where an episode can be open, and none is
\* selected
C28_ImportCompletedOffDashboard ==
  /\ last.op = "fileTextResolved"
  /\ last.fail = 0
  /\ ~last.live
  /\ currentView = "episodes"
  /\ selectedEpisode = None
  /\ episodesState.sourceLabel = "mixed.csv"

\* The store and the dataset as handleReset leaves them (empty, bundled)
\* or as a handleFileImport of a file f at a time t leaves them
InStep(store, state) ==
  \/ store = EmptyStorage /\ state = loadEpisodes
  \/ \E f \in Files, t \in 1..MaxClock :
       /\ store = [csv |-> Some(f.text),
                   meta |-> Some(JSONstringify([sourceLabel |-> f.name,
                                                timestamp |-> t]))]
       /\ state = stateOf(parse(f.text), f.name, Some(t))

\* C29: at the start the store is empty and the bundled dataset is active;
\* every step other than a page load in which no storage operation fails
\* keeps the store and the active dataset in step: either the store is
\* empty and the bundled dataset is active, or the store holds the text and
\* {sourceLabel, timestamp} of the import whose parse result is active; and
\* an import that completes makes its own file the source of both.
C29_StoreAndDatasetInStep ==
  /\ InStep(storage, episodesState)
  /\ [][(/\ InStep(storage, episodesState)
         /\ last'.op # "AppStart"
         /\ last'.fail = 0) =>
          /\ InStep(storage', episodesState')
          /\ last'.op = "fileTextResolved" =>
               \E i \in 1..Len(pending) :
                 /\ pending' = RemoveAt(pending, i)
                 /\ storage'.csv = Some(pending[i].file.text)
                 /\ episodesState'.sourceLabel = pending[i].file.name]_vars

\* C29's case: of two imports suspended at the same time the later one has
\* completed first and is the source of the store and of the dataset, while
\* the earlier one is still suspended
C29_LaterImportCompletedFirst ==
  /\ last.op = "fileTextResolved"
  /\ last.fail = 0
  /\ Len(pending) = 1
  /\ ~pending[1].live
  /\ pending[1].file.name = "blank.txt"
  /\ episodesState.sourceLabel = "mixed.csv"
  /\ storage.csv = Some(MixedText)

(***************************************************************************)
(* The application when every file.text() settles.                         *)
(***************************************************************************)
\* file.text() of some suspended import resolves or rejects.
fileTextSettles ==
  \E i \in 1..Len(pending) :
    \/ fileTextRejected(i)
    \/ \E fail \in FailChoices, time \in now..MaxClock : fileTextResolved(i, fail, time)

SpecSettling == Init /\ [][Next]_vars /\ WF_vars(fileTextSettles)

====
